---- MODULE Spec2Model ----
(***************************************************************************)
(* Model of the rule-driven field extractor of extractor.py: the           *)
(* sectionizer, the wildcard rule expander, the single-line / paragraph    *)
(* matcher of extract(), and the postprocessor.                            *)
(*                                                                         *)
(* A Python str is modelled as a sequence of one-character strings, so     *)
(* that splitting, trimming, case mapping and regular-expression matching  *)
(* are computed character by character as the library computes them.       *)
(***************************************************************************)
EXTENDS Integers, Sequences, FiniteSets, TLC

VARIABLES paragraphs, text, sections, config, max_n, rules, row, raised,
          label, value, result, pc

vars == <<paragraphs, text, sections, config, max_n, rules, row, raised,
          label, value, result, pc>>

(***************************************************************************)
(* Characters and the str methods the program uses.                        *)
(***************************************************************************)
UpperChars == <<"A","B","C","D","E","F","G","H","I","J","K","L","M",
                "N","O","P","Q","R","S","T","U","V","W","X","Y","Z">>

LowerChars == <<"a","b","c","d","e","f","g","h","i","j","k","l","m",
                "n","o","p","q","r","s","t","u","v","w","x","y","z">>

DigitChars == <<"0","1","2","3","4","5","6","7","8","9">>

\* U+00A0, the non-breaking space of postprocess's strip argument.
NBSP == "nbsp"

NL == "\n"

IsUpperChar(c) == \E i \in 1..26 : UpperChars[i] = c

IsLowerChar(c) == \E i \in 1..26 : LowerChars[i] = c

IsCased(c) == IsUpperChar(c) \/ IsLowerChar(c)

IsDigit(c) == \E i \in 1..10 : DigitChars[i] = c

\* \w of a str pattern: letters, digits and the underscore.
IsWordChar(c) == IsCased(c) \/ IsDigit(c) \/ c = "_"

\* \s of a str pattern, and what str.strip() removes.
IsSpace(c) == c \in {" ", "\t", NL, NBSP}

\* str.lower() / str.upper() of one character.
LowerOf(c) ==
    IF IsUpperChar(c)
    THEN LowerChars[CHOOSE i \in 1..26 : UpperChars[i] = c]
    ELSE c

UpperOf(c) ==
    IF IsLowerChar(c)
    THEN UpperChars[CHOOSE i \in 1..26 : LowerChars[i] = c]
    ELSE c

lower(s) == [i \in 1..Len(s) |-> LowerOf(s[i])]

upper(s) == [i \in 1..Len(s) |-> UpperOf(s[i])]

\* str.isupper(): at least one cased character and no lower-case one.
isupper(s) ==
    /\ \E i \in 1..Len(s) : IsCased(s[i])
    /\ \A i \in 1..Len(s) : ~IsLowerChar(s[i])

\* str.istitle(): upper-case letters only after uncased characters,
\* lower-case letters only after cased ones, at least one cased character.
istitle(s) ==
    /\ \E i \in 1..Len(s) : IsCased(s[i])
    /\ \A i \in 1..Len(s) :
          /\ IsUpperChar(s[i]) => (i = 1 \/ ~IsCased(s[i-1]))
          /\ IsLowerChar(s[i]) => (i > 1 /\ IsCased(s[i-1]))

\* The least and the greatest element of a non-empty set of integers.
Min(S) == CHOOSE x \in S : \A y \in S : x <= y

Max(S) == CHOOSE x \in S : \A y \in S : x >= y

\* s cut down to the span of the positions in keep.
Span(s, keep) ==
    IF keep = {} THEN <<>> ELSE SubSeq(s, Min(keep), Max(keep))

\* str.strip(chars) for a set of characters.
StripSet(s, cs) == Span(s, {i \in 1..Len(s) : s[i] \notin cs})

\* str.strip() with no argument: whitespace is removed.
strip(s) == StripSet(s, {" ", "\t", NL, NBSP})

\* sep.join(parts)
RECURSIVE join(_, _)
join(sep, parts) ==
    IF parts = <<>> THEN <<>>
    ELSE IF Len(parts) = 1 THEN parts[1]
    ELSE parts[1] \o sep \o join(sep, Tail(parts))

\* str.splitlines(): no final empty line after a trailing line break.
RECURSIVE splitlines(_)
SplitAtBreaks(s, brk) ==
    IF brk = {} THEN <<s>>
    ELSE <<SubSeq(s, 1, Min(brk) - 1)>>
            \o splitlines(SubSeq(s, Min(brk) + 1, Len(s)))

splitlines(s) ==
    IF s = <<>> THEN <<>>
    ELSE SplitAtBreaks(s, {i \in 1..Len(s) : s[i] = NL})

\* read_docx: one line per paragraph.
read_docx(paras) == join(<<NL>>, paras)

(***************************************************************************)
(* sectionize                                                              *)
(***************************************************************************)
PREAMBLE == <<"_","p","r","e","a","m","b","l","e">>

\* The character class [\w ,/()] of the header pattern.
IsHeaderChar(c) == IsWordChar(c) \/ c \in {" ", ",", "/", "(", ")"}

\* re.match(r"^([\w ,/()]+):\s*$", line): the length of group 1, 0 for no
\* match.  The class holds no colon, so group 1 ends at the first colon.
GroupBefore(line, c) ==
    IF /\ c > 1
       /\ \A i \in 1..(c - 1) : IsHeaderChar(line[i])
       /\ \A i \in (c + 1)..Len(line) : IsSpace(line[i])
    THEN c - 1
    ELSE 0

HeaderGroupLen(line) ==
    IF \A i \in 1..Len(line) : line[i] # ":" THEN 0
    ELSE GroupBefore(line, Min({i \in 1..Len(line) : line[i] = ":"}))

\* IsHeaderLine without the isupper() alternative.
IsHeaderLineTitleOnly(line) ==
    /\ HeaderGroupLen(line) > 0
    /\ istitle(line)

IsHeaderLine(line) ==
    /\ HeaderGroupLen(line) > 0
    /\ (isupper(line) \/ istitle(line))

HeaderName(line) == lower(SubSeq(line, 1, HeaderGroupLen(line)))

\* A dict in insertion order: a sequence of [name, lines] entries.
HasKey(d, k) == \E i \in 1..Len(d) : d[i].name = k

KeyIndex(d, k) == CHOOSE i \in 1..Len(d) : d[i].name = k

\* ResetKey that keeps the lines of a present key, as
\* sections.setdefault(current, []) would.
ResetKeyKeepsLines(d, k) ==
    IF HasKey(d, k) THEN d ELSE Append(d, [name |-> k, lines |-> <<>>])

\* sections[current] = []: a present key keeps its place in the order.
ResetKey(d, k) ==
    IF HasKey(d, k)
    THEN [d EXCEPT ![KeyIndex(d, k)].lines = <<>>]
    ELSE Append(d, [name |-> k, lines |-> <<>>])

\* sections.setdefault(current, []).append(line)
AppendLine(d, k, line) ==
    IF HasKey(d, k)
    THEN [d EXCEPT ![KeyIndex(d, k)].lines = Append(@, line)]
    ELSE Append(d, [name |-> k, lines |-> <<line>>])

\* current = m.group(1).lower(); sections[current] = []
OpenSection(d, k) == [sections |-> ResetKey(d, k), current |-> k]

\* One iteration of the loop over lines: st = [sections, current].
SectionStep(st, line) ==
    IF IsHeaderLine(line)
    THEN OpenSection(st.sections, HeaderName(line))
    ELSE [sections |-> AppendLine(st.sections, st.current, line),
          current  |-> st.current]

RECURSIVE SectionLoop(_, _)
SectionLoop(st, lines) ==
    IF lines = <<>> THEN st
    ELSE SectionLoop(SectionStep(st, Head(lines)), Tail(lines))

\* {k: "\n".join(v).strip() for k, v in sections.items()}
Bodies(d) ==
    [i \in 1..Len(d) |->
        [name |-> d[i].name, body |-> strip(join(<<NL>>, d[i].lines))]]

\* The returned dict, as a sequence of [name, body] in insertion order.
sectionize(t) ==
    Bodies(SectionLoop([sections |-> <<>>, current |-> PREAMBLE],
                       splitlines(t)).sections)

(***************************************************************************)
(* first_n_sentences and postprocess                                       *)
(***************************************************************************)
IsSentenceEnd(c) == c \in {".", "!", "?"}

\* re.split(r'(?<=[.!?])\s+(?=[A-Z])', s): a separator is a maximal run of
\* whitespace that follows one of . ! ? and precedes an upper-case letter.
\* The last position of the whitespace run that starts at position i.
RunEnd(s, i) ==
    CHOOSE j \in i..Len(s) :
        /\ \A k \in i..j : IsSpace(s[k])
        /\ (j = Len(s) \/ ~IsSpace(s[j + 1]))

IsSeparator(s, i) ==
    /\ IsSpace(s[i])
    /\ IsSentenceEnd(s[i - 1])
    /\ RunEnd(s, i) < Len(s)
    /\ IsUpperChar(s[RunEnd(s, i) + 1])

RECURSIVE SplitSentences(_)
SplitAtSeparator(s, seps) ==
    IF seps = {} THEN <<s>>
    ELSE <<SubSeq(s, 1, Min(seps) - 1)>>
            \o SplitSentences(SubSeq(s, RunEnd(s, Min(seps)) + 1, Len(s)))

SplitSentences(s) ==
    SplitAtSeparator(s, {i \in 2..Len(s) : IsSeparator(s, i)})

\* " ".join(sentences[:n])
JoinFirst(sentences, n) ==
    join(<<" ">>,
         SubSeq(sentences, 1, IF n < Len(sentences) THEN n ELSE Len(sentences)))

first_n_sentences(t, n) == JoinFirst(SplitSentences(strip(t)), n)

LAST == <<"l","a","s","t">>

FIRST == <<"f","i","r","s","t">>

HasComma(v) == \E i \in 1..Len(v) : v[i] = ","

\* The comma value.rsplit(",", 1) would split at.
LastComma(v) == Max({i \in 1..Len(v) : v[i] = ","})

FirstComma(v) == Min({i \in 1..Len(v) : v[i] = ","})

\* last, first = [x.strip() for x in value.split(",", 1)]
SplitName(lab, v, c) ==
    IF lab = LAST
    THEN strip(SubSeq(v, 1, c - 1))
    ELSE strip(SubSeq(v, c + 1, Len(v)))

postprocess(lab, v) ==
    IF lab \in {LAST, FIRST} /\ HasComma(v)
    THEN SplitName(lab, v, FirstComma(v))
    ELSE StripSet(v, {NBSP, " "})

(***************************************************************************)
(* expand_wildcards                                                        *)
(***************************************************************************)
\* str(i) for i >= 0, in decimal.
RECURSIVE str(_)
str(i) ==
    IF i < 10 THEN <<DigitChars[i + 1]>>
    ELSE str(i \div 10) \o <<DigitChars[(i % 10) + 1]>>

HasStar(lab) == \E i \in 1..Len(lab) : lab[i] = "*"

\* label.replace("*", d)
RECURSIVE replace_star(_, _)
replace_star(lab, d) ==
    IF lab = <<>> THEN <<>>
    ELSE (IF Head(lab) = "*" THEN d ELSE <<Head(lab)>>)
            \o replace_star(Tail(lab), d)

\* {**rule, "row": r}
\* WithRow with the row counted from one, as {**rule, "row": i} would.
WithRowFromOne(rule, r) ==
    [f \in DOMAIN rule \cup {"row"} |-> IF f = "row" THEN r + 1 ELSE rule[f]]

WithRow(rule, r) ==
    [f \in DOMAIN rule \cup {"row"} |-> IF f = "row" THEN r ELSE rule[f]]

\* A dict of rules in insertion order: a sequence of [label, rule] entries.
HasLabel(d, lab) == \E i \in 1..Len(d) : d[i].label = lab

LabelIndex(d, lab) == CHOOSE i \in 1..Len(d) : d[i].label = lab

\* out[lab] = rule: a present key keeps its place and takes the new value.
PutRule(d, lab, rule) ==
    IF HasLabel(d, lab)
    THEN [d EXCEPT ![LabelIndex(d, lab)].rule = rule]
    ELSE Append(d, [label |-> lab, rule |-> rule])

\* The dict after out[gen[i]] = {**rule, "row": i - 1} for i = 1..Len(gen):
\* a key stays where it was first inserted and holds the value of its last
\* assignment.
LastIndex(gen, l) ==
    CHOOSE i \in 1..Len(gen) :
        gen[i] = l /\ \A j \in (i + 1)..Len(gen) : gen[j] # l

Expanded(gen, rule, l) ==
    [label |-> l, rule |-> WithRow(rule, LastIndex(gen, l) - 1)]

IsFirstNew(out, gen, i) ==
    /\ ~HasLabel(out, gen[i])
    /\ \A j \in 1..(i - 1) : gen[j] # gen[i]

NewEntries(gen, rule, fresh) ==
    [k \in 1..Len(fresh) |-> Expanded(gen, rule, gen[fresh[k]])]

PutAll(out, gen, rule) ==
    [j \in 1..Len(out) |->
        IF \E i \in 1..Len(gen) : gen[i] = out[j].label
        THEN Expanded(gen, rule, out[j].label)
        ELSE out[j]]
      \o NewEntries(gen, rule,
                    SelectSeq([i \in 1..Len(gen) |-> i],
                              LAMBDA i : IsFirstNew(out, gen, i)))

\* for i in range(1, n + 1): out[label.replace("*", str(i))] = {..., row}
ExpandOne(out, lab, rule, n) ==
    PutAll(out, [i \in 1..n |-> replace_star(lab, str(i))], rule)

RECURSIVE ExpandLoop(_, _, _)
ExpandLoop(out, rs, n) ==
    IF rs = <<>> THEN out
    ELSE ExpandLoop(IF HasStar(rs[1].label)
                    THEN ExpandOne(out, rs[1].label, rs[1].rule, n)
                    ELSE PutRule(out, rs[1].label, rs[1].rule),
                    Tail(rs), n)

expand_wildcards(rs, n) == ExpandLoop(<<>>, rs, n)

(***************************************************************************)
(* The label schema.  LABELS of the program holds some 230 fixed labels,   *)
(* eight labels per medication row 1..26 and a tail of clinical flags; the *)
(* model keeps a few fixed labels, the p<i> label of every medication row  *)
(* and one flag, in that order.                                            *)
(***************************************************************************)
MED_ROWS == 26

DEFAULT_MAX_N == 30

CAPTURE_MAX == 200

DOB == <<"d","o","b">>

CIN == <<"c","i","n">>

A_ED == <<"a","_","e","d">>

LabelSfAlone == <<"s","f","_","a","l","o","n","e">>

LABELS ==
    <<LAST, FIRST, DOB, CIN, A_ED>>
        \o [i \in 1..MED_ROWS |-> <<"p">> \o str(i)]
        \o <<LabelSfAlone>>

(***************************************************************************)
(* The single_line pattern of extract():                                   *)
(*   re.escape(v) [:\s]* ([^\n]{1,200}?) (?:\s\s|\n|$)    with re.I        *)
(* Positions are 1-based; a span is [cs, ce), ce the position after it.    *)
(***************************************************************************)
\* The literal v matches at position s, ignoring case.
MatchesAt(t, s, v) ==
    /\ s + Len(v) - 1 <= Len(t)
    /\ \A i \in 1..Len(v) : LowerOf(t[s + i - 1]) = LowerOf(v[i])

\* IsTerminator for (?:\s|\n|$): one whitespace character ends the value.
IsTerminatorOneSpace(t, e) ==
    \/ e = Len(t) + 1
    \/ (e <= Len(t) /\ IsSpace(t[e]))

\* (?:\s\s|\n|$) matches at position e.
IsTerminator(t, e) ==
    \/ e = Len(t) + 1
    \/ (e <= Len(t) /\ t[e] = NL)
    \/ (e + 1 <= Len(t) /\ IsSpace(t[e]) /\ IsSpace(t[e + 1]))

\* The least element of a set of positions, 0 for none.
MinOrZero(S) == IF S = {} THEN 0 ELSE Min(S)

\* ([^\n]{1,200}?) from cs, then the terminator: the lazy group takes the
\* fewest characters that let the terminator match; 0 when none do.
CaptureEnd(t, cs) ==
    IF cs > Len(t) \/ t[cs] = NL THEN 0
    ELSE MinOrZero({e \in (cs + 1)..(cs + CAPTURE_MAX) :
                       e <= Len(t) + 1 /\ IsTerminator(t, e)})

\* The length of the run of [:\s] characters from position p.
SkipRun(t, p) ==
    IF \A i \in p..Len(t) : (t[i] = ":" \/ IsSpace(t[i]))
    THEN Len(t) + 1 - p
    ELSE Min({i \in p..Len(t) : ~(t[i] = ":" \/ IsSpace(t[i]))}) - p

\* [:\s]* is greedy and backtracks: the group starts after the longest
\* prefix of the run from which the rest of the pattern matches.
CaptureStarts(t, p) ==
    {cs \in p..(p + SkipRun(t, p)) : CaptureEnd(t, cs) # 0}

NoMatch == [found |-> FALSE, cs |-> 0, ce |-> 0]

MatchFrom(t, cs) == [found |-> TRUE, cs |-> cs, ce |-> CaptureEnd(t, cs)]

\* The match at the leftmost start.
LeftmostMatch(v, t, starts) ==
    IF starts = {} THEN NoMatch
    ELSE MatchFrom(t, Max(CaptureStarts(t, Min(starts) + Len(v))))

\* re.search(pattern, t, flags=re.I)
SingleLineSearch(v, t) ==
    LeftmostMatch(v, t,
        {s \in 1..(Len(t) + 1) :
            MatchesAt(t, s, v) /\ CaptureStarts(t, s + Len(v)) # {}})

\* m.group(1)
Group1(t, m) == SubSeq(t, m.cs, m.ce - 1)

\* for v in variants: if (m := re.search(...)): value = ...; break
RECURSIVE VariantLoop(_, _)
TryVariant(m, sec, rest) ==
    IF m.found THEN strip(Group1(sec, m)) ELSE VariantLoop(sec, rest)

VariantLoop(sec, variants) ==
    IF variants = <<>> THEN <<>>
    ELSE TryVariant(SingleLineSearch(Head(variants), sec), sec, Tail(variants))

\* for sec in candidate_secs: ...; if value: break
RECURSIVE SectionScan(_, _)
ScanRest(v, rest, variants) ==
    IF v # <<>> THEN v ELSE SectionScan(rest, variants)

SectionScan(secs, variants) ==
    IF secs = <<>> THEN <<>>
    ELSE ScanRest(VariantLoop(Head(secs), variants), Tail(secs), variants)

\* re.search(v, name, re.I) for a variant of literal characters.
SearchIn(v, name) == \E s \in 1..(Len(name) + 1) : MatchesAt(name, s, v)

\* ... or [text]
BodiesOr(sel, t) ==
    IF sel = <<>> THEN <<t>> ELSE [k \in 1..Len(sel) |-> sel[k].body]

\* [s for name, s in sections.items() if any(...)] or [text]
CandidateSecs(secs, variants, t) ==
    BodiesOr(SelectSeq(secs,
                 LAMBDA e : \E j \in 1..Len(variants) :
                                SearchIn(variants[j], e.name)),
             t)

(***************************************************************************)
(* extract                                                                 *)
(***************************************************************************)
HasRow(r, lab) == \E i \in 1..Len(r) : r[i].label = lab

\* row[lab]
RowValue(r, lab) == r[CHOOSE i \in 1..Len(r) : r[i].label = lab].value

\* The if / elif / else over rule["type"].
Dispatch(rule, cands) ==
    IF rule.type = "single_line"
    THEN SectionScan(cands, rule.search)
    ELSE IF rule.type = "paragraph"
    THEN first_n_sentences(cands[1],
             IF "keep_n_sentences" \in DOMAIN rule
             THEN rule.keep_n_sentences ELSE 2)
    ELSE <<>>

\* The body of the loop over rules: the label and its value.
RuleValue(e, secs, t) ==
    [label |-> e.label,
     value |-> postprocess(e.label,
                   Dispatch(e.rule, CandidateSecs(secs, e.rule.search, t)))]

\* rule["search"] or rule["type"] raises KeyError.
MissingKey(rs) ==
    \E i \in 1..Len(rs) :
        "search" \notin DOMAIN rs[i].rule \/ "type" \notin DOMAIN rs[i].rule

\* The row after row[label] = value for every entry of vals, which holds
\* each label once: a schema label keeps its place in the row, any other
\* label is appended in rule order.
Assigned(row0, vals) ==
    [j \in 1..Len(row0) |->
        IF HasRow(vals, row0[j].label)
        THEN [row0[j] EXCEPT !.value = RowValue(vals, row0[j].label)]
        ELSE row0[j]]
      \o SelectSeq(vals, LAMBDA e : ~HasRow(row0, e.label))

\* for label, rule in rules.items(): ... row[label] = postprocess(...)
RuleLoop(row0, rs, secs, t) ==
    Assigned(row0, [i \in 1..Len(rs) |-> RuleValue(rs[i], secs, t)])

\* row = {lab: "" for lab in LABELS}
EmptyRow == [i \in 1..Len(LABELS) |-> [label |-> LABELS[i], value |-> <<>>]]

\* load_rules(): the parsed label_map.yml.  cfg.file is "absent" (no such
\* file: read_text raises), "null" (a file with no document: safe_load
\* returns None, whose .items() raises) or "mapping" (cfg.rules).
load_rules(cfg) ==
    IF cfg.file = "absent" THEN "FileNotFoundError"
    ELSE IF cfg.file = "null" THEN "AttributeError"
    ELSE "none"

(***************************************************************************)
(* Inputs.  Documents are sequences of paragraphs drawn from a pool; rule  *)
(* files are mappings of entries drawn from a pool.  Search variants are   *)
(* words of letters and blanks, for which re.search(v, name) is a          *)
(* substring search.                                                       *)
(***************************************************************************)
MaxParas == 3

MaxDocParas == 2

MaxTemplates == 2

MaxN == 11

MaxValueLen == 4

\* All sequences over pool of length at most n.
SeqsUpTo(pool, n) == UNION {[1..k -> pool] : k \in 0..n}

\* "CHIEF COMPLAINT:\nPatient reports pain." and "NEXT SECTION:\nOther text"
CHIEF_COMPLAINT ==
    <<"C","H","I","E","F"," ","C","O","M","P","L","A","I","N","T",":">>
      \o <<NL>> \o <<"P","a","t","i","e","n","t"," ","r","e","p","o","r","t","s"," ","p","a","i","n",".">>

NEXT_SECTION ==
    <<"N","E","X","T"," ","S","E","C","T","I","O","N",":">> \o <<NL>>
      \o <<"O","t","h","e","r"," ","t","e","x","t">>

\* Paragraphs of the documents given to sectionize.
SectParas ==
    { <<"H","X",":">>,          \* an upper-case header
      <<"H","x",":">>,          \* the same name as a title-case header
      <<"h","X",":">>,          \* mixed case: not a header
      <<"\t","H","X",":">>,     \* a tab is not in the header class
      <<"v">>,
      <<>>,
      <<"a",NL,"K",":"," ">>,  \* a paragraph with a line break in it
      <<"_","P","R","E","A","M","B","L","E",":">>,
      CHIEF_COMPLAINT,
      NEXT_SECTION }

LongRun == [i \in 1..(CAPTURE_MAX + 1) |-> "x"]

\* "DOB: 01/02/1950  Next field"
DOB_LINE ==
    <<"D","O","B",":"," ","0","1","/","0","2","/","1","9","5","0"," "," ","N","e","x","t"," ","f","i","e","l","d">>

\* "Birth ": a variant followed by nothing but a blank.
BIRTH_BLANK ==
    <<"B","i","r","t","h"," ">>

\* Paragraphs of the documents given to extract.
DocParas ==
    { DOB_LINE,
      BIRTH_BLANK,
      <<"N","a","m","e",":"," ","S","m","i","t","h",","," ","J","o","h","n">>,
      <<"M","E","D"," ","D","O","B",":">>,
      <<"d","o","b",":","\t">>,
      <<"P","t"," ","o","k","."," ","M","e","d"," ","x","."," ","E","n","d">>,
      <<"D","O","B"," ">> \o LongRun }

V_DOB == <<"D","O","B">>

V_BIRTH == <<"B","i","r","t","h">>

V_MED == <<"M","e","d">>

V_NAME == <<"N","a","m","e">>

\* The rule files.  A regex rule's pattern is kept as the literal text it
\* starts with; the pattern it stands for is that text followed by the
\* group (\S+).
SingleLine(variants) == [search |-> variants, type |-> "single_line"]

RuleFiles ==
    { <<>>,
      <<[label |-> DOB, rule |-> SingleLine(<<V_BIRTH, V_DOB>>)]>>,
      <<[label |-> <<"p","*">>, rule |-> SingleLine(<<V_MED>>)]>>,
      <<[label |-> DOB,
         rule  |-> [search |-> <<V_DOB>>, type |-> "regex",
                    pattern |-> <<"D","O","B",":"," ">>]]>>,
      <<[label |-> DOB, rule |-> [search |-> <<V_DOB>>, type |-> "regex"]]>>,
      <<[label |-> CIN, rule |-> [search |-> <<V_DOB>>, type |-> "table"]]>>,
      <<[label |-> LAST, rule |-> SingleLine(<<V_NAME>>)],
        [label |-> FIRST, rule |-> SingleLine(<<V_NAME>>)]>>,
      <<[label |-> CIN,
         rule  |-> [search |-> <<V_MED>>, type |-> "paragraph",
                    keep_n_sentences |-> 1]]>>,
      <<[label |-> <<"z","i","p">>, rule |-> SingleLine(<<V_NAME>>)]>>,
      <<[label |-> A_ED, rule |-> [search |-> <<V_MED>>, type |-> "multi_line"]]>>,
      <<[label |-> FIRST, rule |-> [type |-> "single_line"]]>> }

Configs ==
    {[file |-> "absent", rules |-> <<>>], [file |-> "null", rules |-> <<>>]}
        \cup {[file |-> "mapping", rules |-> rs] : rs \in RuleFiles}

\* Templates given to expand_wildcards alone.
TemplateLabels ==
    { <<"p","*">>, <<"m","*","x">>, <<"*","_","*">>, DOB, <<"p","1">> }

TemplateRules ==
    { [search |-> <<V_MED>>, type |-> "single_line"],
      [search |-> <<V_DOB>>, type |-> "paragraph", keep_n_sentences |-> 1] }

Templates == {[label |-> l, rule |-> r] : l \in TemplateLabels, r \in TemplateRules}

\* Values given to postprocess alone.
ValueChars == {"a", "b", ",", " ", NBSP, "\t"}

NoConfig == [file |-> "absent", rules |-> <<>>]

(***************************************************************************)
(* Spec: a run of the program.  The document and the rule file are given;  *)
(* extract() is one step.                                                  *)
(***************************************************************************)
Init ==
    /\ paragraphs \in SeqsUpTo(DocParas, MaxDocParas)
    /\ config \in Configs
    /\ max_n = DEFAULT_MAX_N
    /\ text = <<>>
    /\ sections = <<>>
    /\ rules = <<>>
    /\ row = <<>>
    /\ raised = "none"
    /\ label = <<>>
    /\ value = <<>>
    /\ result = <<>>
    /\ pc = "start"

Extract ==
    /\ pc = "start"
    /\ text' = read_docx(paragraphs)
    /\ sections' = sectionize(text')
    /\ rules' = IF load_rules(config) = "none"
                THEN expand_wildcards(config.rules, DEFAULT_MAX_N)
                ELSE <<>>
    /\ raised' = IF load_rules(config) # "none" THEN load_rules(config)
                 ELSE IF MissingKey(rules') THEN "KeyError"
                 ELSE "none"
    /\ row' = IF raised' = "none"
              THEN RuleLoop(EmptyRow, rules', sections', text')
              ELSE <<>>
    /\ pc' = "done"
    /\ UNCHANGED <<paragraphs, config, max_n, label, value, result>>

Next == Extract

Spec == Init /\ [][Next]_vars

(***************************************************************************)
(* SpecSectionize: sectionize applied to the text of a document.           *)
(***************************************************************************)
InitSectionize ==
    /\ paragraphs \in SeqsUpTo(SectParas, MaxParas)
    /\ config = NoConfig
    /\ max_n = DEFAULT_MAX_N
    /\ text = <<>>
    /\ sections = <<>>
    /\ rules = <<>>
    /\ row = <<>>
    /\ raised = "none"
    /\ label = <<>>
    /\ value = <<>>
    /\ result = <<>>
    /\ pc = "start"

Sectionize ==
    /\ pc = "start"
    /\ text' = read_docx(paragraphs)
    /\ sections' = sectionize(read_docx(paragraphs))
    /\ pc' = "sectionized"
    /\ UNCHANGED <<paragraphs, config, max_n, rules, row, raised,
                   label, value, result>>

NextSectionize == Sectionize

SpecSectionize == InitSectionize /\ [][NextSectionize]_vars

(***************************************************************************)
(* SpecExpand: expand_wildcards applied to templates and a repeat count.   *)
(***************************************************************************)
InitExpand ==
    /\ paragraphs = <<>>
    /\ config \in {[file |-> "mapping", rules |-> rs] :
                      rs \in SeqsUpTo(Templates, MaxTemplates)}
    /\ max_n \in 0..MaxN
    /\ text = <<>>
    /\ sections = <<>>
    /\ rules = <<>>
    /\ row = <<>>
    /\ raised = "none"
    /\ label = <<>>
    /\ value = <<>>
    /\ result = <<>>
    /\ pc = "start"

Expand ==
    /\ pc = "start"
    /\ rules' = expand_wildcards(config.rules, max_n)
    /\ pc' = "expanded"
    /\ UNCHANGED <<paragraphs, text, sections, config, max_n, row, raised,
                   label, value, result>>

NextExpand == Expand

SpecExpand == InitExpand /\ [][NextExpand]_vars

(***************************************************************************)
(* SpecPostprocess: postprocess applied to a label and a value.            *)
(***************************************************************************)
InitPostprocess ==
    /\ paragraphs = <<>>
    /\ config = NoConfig
    /\ max_n = DEFAULT_MAX_N
    /\ text = <<>>
    /\ sections = <<>>
    /\ rules = <<>>
    /\ row = <<>>
    /\ raised = "none"
    /\ label \in {LAST, FIRST, DOB}
    /\ value \in SeqsUpTo(ValueChars, MaxValueLen)
    /\ result = <<>>
    /\ pc = "start"

Postprocess ==
    /\ pc = "start"
    /\ result' = postprocess(label, value)
    /\ pc' = "postprocessed"
    /\ UNCHANGED <<paragraphs, text, sections, config, max_n, rules, row,
                   raised, label, value>>

NextPostprocess == Postprocess

SpecPostprocess == InitPostprocess /\ [][NextPostprocess]_vars

(***************************************************************************)
(* Claims about extract(), checked under Spec.                             *)
(***************************************************************************)
SchemaLabels == {LABELS[i] : i \in 1..Len(LABELS)}

RowLabels(r) == {r[i].label : i \in 1..Len(r)}

\* C1: the row returned by extract() has exactly the labels of LABELS as
\* its keys: no schema label is missing and no other key is present.
C1_RowKeysAreSchema ==
    (pc = "done" /\ raised = "none") => RowLabels(row) = SchemaLabels

\* The search variant of the default rule of a label: underscores become
\* blanks.
DefaultVariant(lab) ==
    [i \in 1..Len(lab) |-> IF lab[i] = "_" THEN " " ELSE lab[i]]

\* What a single_line rule with that one variant resolves the label to.
DefaultValue(lab) ==
    postprocess(lab,
        SectionScan(CandidateSecs(sections, <<DefaultVariant(lab)>>, text),
                    <<DefaultVariant(lab)>>))

\* C2: a schema label with no concrete rule is resolved by a default
\* single_line rule whose variant is the label with blanks for underscores:
\* when that rule captures a value in the document, the row holds it.
C2_UnconfiguredLabelUsesDefaultRule ==
    (pc = "done" /\ raised = "none") =>
        \A i \in 1..Len(LABELS) :
            (~HasLabel(rules, LABELS[i]) /\ DefaultValue(LABELS[i]) # <<>>)
                => RowValue(row, LABELS[i]) = DefaultValue(LABELS[i])

\* C3: with no rule file, loading yields the empty rule set and extract()
\* returns a row for the document without raising.
C3_AbsentRuleFileIsEmptyRuleSet ==
    (pc = "done" /\ config.file = "absent") =>
        /\ raised = "none"
        /\ rules = <<>>
        /\ RowLabels(row) = SchemaLabels

RuleTypes == {"single_line", "multi_line", "paragraph", "regex"}

\* A rule of type regex without a pattern, or of a type that is none of
\* the four.
Malformed(rule) ==
    /\ "type" \in DOMAIN rule
    /\ \/ rule.type \notin RuleTypes
       \/ (rule.type = "regex" /\ "pattern" \notin DOMAIN rule)

\* C4: a malformed rule is rejected with an error; extract() never
\* completes with such a rule in the rule file.
C4_MalformedRuleIsRejected ==
    (pc = "done" /\ \E i \in 1..Len(config.rules) :
                        Malformed(config.rules[i].rule))
        => raised # "none"

\* The group of the pattern lit(\S+) at its leftmost match in t, <<>> for
\* no match.
RegexCapture(lit, t) ==
    LET starts == {s \in 1..Len(t) :
                      /\ MatchesAt(t, s, lit)
                      /\ s + Len(lit) <= Len(t)
                      /\ ~IsSpace(t[s + Len(lit)])}
        cs == Min(starts) + Len(lit)
        ce == Min({e \in (cs + 1)..(Len(t) + 1) :
                      e = Len(t) + 1 \/ IsSpace(t[e])})
    IN  IF starts = {} THEN <<>> ELSE SubSeq(t, cs, ce - 1)

\* C5: a regex rule whose pattern matches in the full document text
\* resolves its label to the captured group.
C5_RegexRuleSearchesFullText ==
    (pc = "done" /\ raised = "none") =>
        \A i \in 1..Len(rules) :
            ( /\ rules[i].rule.type = "regex"
              /\ "pattern" \in DOMAIN rules[i].rule
              /\ RegexCapture(rules[i].rule.pattern, text) # <<>> )
            => RowValue(row, rules[i].label)
                  = postprocess(rules[i].label,
                                RegexCapture(rules[i].rule.pattern, text))

\* (?:\s\s|\n|$) as the specification words it: two consecutive whitespace
\* characters, a newline, or the end of the text, at position e.
EndsValue(t, e) ==
    \/ e > Len(t)
    \/ t[e] = NL
    \/ (e < Len(t) /\ IsSpace(t[e]) /\ IsSpace(t[e + 1]))

\* The match m of variant v in sec captures a value as C9 describes.
CaptureIsWellFormed(v, sec, m) ==
    /\ m.ce - m.cs >= 1
    /\ m.ce - m.cs <= CAPTURE_MAX
    /\ \A k \in m.cs..(m.ce - 1) : sec[k] # NL
    /\ EndsValue(sec, m.ce)
    /\ \A e \in (m.cs + 1)..(m.ce - 1) : ~EndsValue(sec, e)
    /\ \E s \in 1..Len(sec) :
          /\ MatchesAt(sec, s, v)
          /\ s + Len(v) <= m.cs
          /\ \A k \in (s + Len(v))..(m.cs - 1) :
                sec[k] = ":" \/ IsSpace(sec[k])

\* The values a single_line rule can take from its candidate sections.
SingleLineValues(e, cands) ==
    {postprocess(e.label, strip(Group1(cands[c],
                     SingleLineSearch(e.rule.search[j], cands[c])))) :
        <<c, j>> \in {x \in (1..Len(cands)) \X (1..Len(e.rule.search)) :
                        SingleLineSearch(e.rule.search[x[2]],
                                         cands[x[1]]).found}}

\* C9: for a single_line rule, the value captured after a search variant
\* and the colons and whitespace that follow it has no newline, has 1 to
\* 200 characters and ends at the first place where two whitespace
\* characters, a newline or the end of the text stand; the row holds such a
\* capture (trimmed) or the empty string; variant DOB on
\* "DOB: 01/02/1950  Next field" yields "01/02/1950".
C9_SingleLineCapture ==
    (pc = "done" /\ raised = "none") =>
        /\ \A i \in 1..Len(rules) :
              rules[i].rule.type = "single_line" =>
                LET cands == CandidateSecs(sections, rules[i].rule.search, text)
                IN  /\ \A c \in 1..Len(cands) :
                          \A j \in 1..Len(rules[i].rule.search) :
                              LET v == rules[i].rule.search[j]
                                  m == SingleLineSearch(v, cands[c])
                              IN  m.found => CaptureIsWellFormed(v, cands[c], m)
                    /\ RowValue(row, rules[i].label)
                          \in {<<>>} \cup SingleLineValues(rules[i], cands)
        /\ ( /\ paragraphs = <<DOB_LINE>>
             /\ HasLabel(rules, DOB)
             /\ rules[LabelIndex(rules, DOB)].rule.type = "single_line" )
           => RowValue(row, DOB)
                 = <<"0", "1", "/", "0", "2", "/", "1", "9", "5", "0">>

\* A single_line rule with variant DOB has taken "01/02/1950" from the
\* document "DOB: 01/02/1950  Next field".
C9_Witness ==
    /\ pc = "done"
    /\ raised = "none"
    /\ paragraphs = <<DOB_LINE>>
    /\ HasLabel(rules, DOB)
    /\ rules[LabelIndex(rules, DOB)].rule.type = "single_line"
    /\ \E j \in 1..Len(rules[LabelIndex(rules, DOB)].rule.search) :
          rules[LabelIndex(rules, DOB)].rule.search[j] = V_DOB
    /\ RowValue(row, DOB) = <<"0", "1", "/", "0", "2", "/", "1", "9", "5", "0">>

\* The trimmed capture of variant j in candidate section c, <<>> for no
\* match.
TrimmedCapture(cands, variants, c, j) ==
    IF SingleLineSearch(variants[j], cands[c]).found
    THEN strip(Group1(cands[c], SingleLineSearch(variants[j], cands[c])))
    ELSE <<>>

\* The (section, variant) pairs with a capture that is not empty after
\* trimming.
NonEmptyPairs(cands, variants) ==
    {x \in (1..Len(cands)) \X (1..Len(variants)) :
        TrimmedCapture(cands, variants, x[1], x[2]) # <<>>}

\* x comes before y: sections first, variants within a section.
PairBefore(x, y) == x[1] < y[1] \/ (x[1] = y[1] /\ x[2] <= y[2])

\* The capture of the first pair, in that order, with a non-empty trimmed
\* capture; <<>> when there is none.
FirstNonEmptyCapture(cands, variants) ==
    IF NonEmptyPairs(cands, variants) = {} THEN <<>>
    ELSE LET x == CHOOSE a \in NonEmptyPairs(cands, variants) :
                      \A b \in NonEmptyPairs(cands, variants) : PairBefore(a, b)
         IN  TrimmedCapture(cands, variants, x[1], x[2])

\* C11: a single_line rule resolves to the capture of the first (section,
\* variant) pair, sections in insertion order and variants in declared
\* order within a section, whose capture is non-empty after trimming; a
\* variant that captures only whitespace does not keep the later variants
\* of the same section from being tried.
C11_FirstNonEmptyCaptureWins ==
    (pc = "done" /\ raised = "none") =>
        \A i \in 1..Len(rules) :
            rules[i].rule.type = "single_line" =>
                RowValue(row, rules[i].label)
                    = postprocess(rules[i].label,
                          FirstNonEmptyCapture(
                              CandidateSecs(sections, rules[i].rule.search, text),
                              rules[i].rule.search))

(***************************************************************************)
(* Claims about expand_wildcards, checked under SpecExpand.                *)
(***************************************************************************)
DigitOf(d) == <<"0", "1", "2", "3", "4", "5", "6", "7", "8", "9">>[d + 1]

\* The decimal numeral of a number below 100.
Numeral(i) ==
    IF i < 10 THEN <<DigitOf(i)>> ELSE <<DigitOf(i \div 10), DigitOf(i % 10)>>

\* C6: expand_wildcards on a single template whose label has the wildcard
\* marker, with maximum repeat count N, returns exactly N rules with N
\* pairwise distinct labels, the marker replaced by 1..N; rule i carries
\* row = i - 1 and otherwise the template's fields; a template without the
\* marker is emitted once, unchanged, with no row attribute.
C6_SingleTemplateExpansion ==
    (pc = "expanded" /\ Len(config.rules) = 1) =>
        LET tpl == config.rules[1]
        IN  IF HasStar(tpl.label)
            THEN /\ Len(rules) = max_n
                 /\ \A i, j \in 1..Len(rules) :
                       i # j => rules[i].label # rules[j].label
                 /\ \A i \in 1..Len(rules) :
                       /\ rules[i].label = replace_star(tpl.label, Numeral(i))
                       /\ DOMAIN rules[i].rule = DOMAIN tpl.rule \cup {"row"}
                       /\ rules[i].rule.row = i - 1
                       /\ \A f \in DOMAIN tpl.rule :
                             f # "row" => rules[i].rule[f] = tpl.rule[f]
                 /\ {rules[i].rule.row : i \in 1..Len(rules)} = 0..(max_n - 1)
            ELSE /\ rules = <<tpl>>
                 /\ "row" \notin DOMAIN rules[1].rule

\* A single wildcard template has been expanded into at least ten rules.
C6_Witness ==
    /\ pc = "expanded"
    /\ Len(config.rules) = 1
    /\ HasStar(config.rules[1].label)
    /\ max_n >= 10
    /\ Len(rules) = max_n
    /\ rules[max_n].rule.row = max_n - 1

(***************************************************************************)
(* Claims about sectionize, checked under SpecSectionize.                  *)
(***************************************************************************)
\* The lines of the text, and which of them are header lines.
TextLines == splitlines(text)

HeaderAt(i) == IsHeaderLine(TextLines[i])

HeadersBefore(i) == {j \in 1..(i - 1) : HeaderAt(j)}

\* The section a non-header line i belongs to.
Owner(i) ==
    IF HeadersBefore(i) = {} THEN PREAMBLE
    ELSE HeaderName(TextLines[Max(HeadersBefore(i))])

\* The last header line that names k, 0 for none.
LastOpened(k) ==
    Max({0} \cup {i \in 1..Len(TextLines) :
                     HeaderAt(i) /\ HeaderName(TextLines[i]) = k})

\* The lines of k that follow the last header line naming k.
KeptLines(k) ==
    LET idx == SelectSeq([i \in 1..Len(TextLines) |-> i],
                   LAMBDA i : ~HeaderAt(i) /\ i > LastOpened(k) /\ Owner(i) = k)
    IN  [n \in 1..Len(idx) |-> TextLines[idx[n]]]

SectionNames ==
    {HeaderName(TextLines[i]) : i \in {j \in 1..Len(TextLines) : HeaderAt(j)}}
      \cup {Owner(i) : i \in {j \in 1..Len(TextLines) : ~HeaderAt(j)}}

\* C7: sectionize gives every non-header line to the section of the most
\* recent header line before it (lowercased), or to the preamble when there
\* is none; a header line starts a fresh accumulation, so a name that occurs
\* more than once keeps only the lines after its last occurrence; each body
\* is its lines joined by newlines and trimmed.
C7_SectionsFollowLastHeader ==
    pc = "sectionized" =>
        /\ {sections[i].name : i \in 1..Len(sections)} = SectionNames
        /\ \A i, j \in 1..Len(sections) :
              i # j => sections[i].name # sections[j].name
        /\ \A i \in 1..Len(sections) :
              sections[i].body = strip(join(<<NL>>, KeptLines(sections[i].name)))
        /\ paragraphs = <<CHIEF_COMPLAINT, NEXT_SECTION>> =>
              sections =
                << [name |-> <<"c", "h", "i", "e", "f", " ", "c", "o", "m",
                               "p", "l", "a", "i", "n", "t">>,
                    body |-> <<"P", "a", "t", "i", "e", "n", "t", " ", "r",
                               "e", "p", "o", "r", "t", "s", " ", "p", "a",
                               "i", "n", ".">>],
                   [name |-> <<"n", "e", "x", "t", " ", "s", "e", "c", "t",
                               "i", "o", "n">>,
                    body |-> <<"O", "t", "h", "e", "r", " ", "t", "e", "x",
                               "t">>] >>

\* A header name occurs twice with a non-blank line between the two
\* occurrences, and that line is not in the returned body.
C7_Witness ==
    /\ pc = "sectionized"
    /\ \E i, j \in 1..Len(TextLines) :
          /\ i < j
          /\ HeaderAt(i)
          /\ HeaderAt(j)
          /\ HeaderName(TextLines[i]) = HeaderName(TextLines[j])
          /\ \E m \in (i + 1)..(j - 1) :
                /\ ~HeaderAt(m)
                /\ strip(TextLines[m]) # <<>>
                /\ Owner(m) = HeaderName(TextLines[i])
          /\ \E n \in 1..Len(sections) :
                /\ sections[n].name = HeaderName(TextLines[i])
                /\ sections[n].body = <<>>

BodyOf(d, k) == d[CHOOSE i \in 1..Len(d) : d[i].name = k].body

HasSection(d, k) == \E i \in 1..Len(d) : d[i].name = k

\* sectionize of the header line hdr followed by body maps name to body.
RoundTrips(hdr, name, body) ==
    /\ HasSection(sectionize(hdr \o <<":", NL>> \o body), name)
    /\ BodyOf(sectionize(hdr \o <<":", NL>> \o body), name) = body

\* C8 as stated: for every (name, body) returned by sectionize, the text
\* made of the header line "name:" followed by body is sectionized into a
\* mapping where name has the same body.
C8_RoundTripWithReturnedName ==
    pc = "sectionized" =>
        \A i \in 1..Len(sections) :
            RoundTrips(sections[i].name, sections[i].name, sections[i].body)

NoHeaderLineIn(body) ==
    \A n \in 1..Len(splitlines(body)) : ~IsHeaderLine(splitlines(body)[n])

\* C8 amended: for every (name, body) returned by sectionize where no line
\* of body is itself a header line, the text made of the header line
\* holding the upper-cased name and a colon, followed by body, is
\* sectionized into a mapping where name has the same body.
C8_RoundTripWithUpperCasedName ==
    pc = "sectionized" =>
        \A i \in 1..Len(sections) :
            NoHeaderLineIn(sections[i].body) =>
                RoundTrips(upper(sections[i].name), sections[i].name,
                           sections[i].body)

\* A section that came from a title-case header line has a body of more
\* than one line and round-trips through its upper-cased header.
C8_Witness ==
    /\ pc = "sectionized"
    /\ \E i \in 1..Len(sections) :
          /\ sections[i].name # PREAMBLE
          /\ Len(splitlines(sections[i].body)) > 1
          /\ NoHeaderLineIn(sections[i].body)
          /\ RoundTrips(upper(sections[i].name), sections[i].name,
                        sections[i].body)

(***************************************************************************)
(* Claims about postprocess, checked under SpecPostprocess.                *)
(***************************************************************************)
\* y is x without its leading and trailing characters of cs, all of them.
IsTrimOf(y, x, cs) ==
    \E lo \in 1..(Len(x) + 1) :
        \E hi \in 0..Len(x) :
            /\ y = SubSeq(x, lo, hi)
            /\ \A i \in 1..(lo - 1) : x[i] \in cs
            /\ \A i \in (hi + 1)..Len(x) : x[i] \in cs
            /\ y # <<>> => (y[1] \notin cs /\ y[Len(y)] \notin cs)

Whitespace == {" ", "\t", NL, NBSP}

Padding == {" ", NBSP}

CommasOf(v) == {i \in 1..Len(v) : v[i] = ","}

\* C10: postprocess on a value with a comma returns, for label last, the
\* trimmed text before the first comma and, for label first, the trimmed
\* text after the first comma, later commas included; for every other
\* label, and for a value without a comma, it returns the value with only
\* its leading and trailing padding (blanks and no-break spaces) removed.
C10_PostprocessSplitsOnce ==
    pc = "postprocessed" =>
        IF label \in {LAST, FIRST} /\ CommasOf(value) # {}
        THEN LET c == CHOOSE i \in CommasOf(value) :
                          \A k \in CommasOf(value) : i <= k
             IN  /\ label = LAST =>
                       IsTrimOf(result, SubSeq(value, 1, c - 1), Whitespace)
                 /\ label = FIRST =>
                       IsTrimOf(result, SubSeq(value, c + 1, Len(value)),
                                Whitespace)
        ELSE IsTrimOf(result, value, Padding)

\* A given name that keeps a later comma has been returned.
C10_Witness ==
    /\ pc = "postprocessed"
    /\ label = FIRST
    /\ Cardinality(CommasOf(value)) >= 2
    /\ CommasOf(result) # {}
    /\ Len(result) < Len(value) - 1

====
